---------------------------- MODULE Spec2Model ----------------------------
(***************************************************************************)
(* lib_logger: context-scoped trace ids (core.py, contextvars) and the     *)
(* process-wide Logger Core configuration (core.py, config.py).            *)
(*                                                                         *)
(* A Python str is modelled as a sequence of one-character strings, so     *)
(* that slicing (uuid4().hex[:8]) and truthiness (`not trace_id`) are      *)
(* computed as the code computes them.                                     *)
(***************************************************************************)
EXTENDS Integers, Sequences, FiniteSets, TLC

(***************************************************************************)
(* Bounds of the model.                                                    *)
(***************************************************************************)
\* Number of logical contexts (the main context plus spawned tasks).
MaxCtx == 3

Ctx == 1..MaxCtx
MainCtx == 1

(***************************************************************************)
(* Strings.                                                                *)
(***************************************************************************)
\* ContextVar("trace_id", default=""): the default value, the empty str.
EmptyStr == << >>

HexChars == {"0", "1", "2", "3", "4", "5", "6", "7", "8", "9",
             "a", "b", "c", "d", "e", "f"}

\* Python truthiness of a str: `not s` is true exactly for the empty str.
Falsy(s) == Len(s) = 0

\* 24 further hex characters completing a 32-character uuid4().hex value.
HexTailA == <<"1", "2", "3", "4", "5", "6", "7", "8", "9", "a", "b", "c",
              "d", "e", "f", "0", "1", "2", "3", "4", "5", "6", "7", "8">>
HexTailB == <<"f", "e", "d", "c", "b", "a", "9", "8", "7", "6", "5", "4",
              "3", "2", "1", "0", "f", "e", "d", "c", "b", "a", "9", "8">>

\* Values uuid.uuid4().hex can produce (32 lowercase hex characters each).
\* The first two are different UUIDs that agree on their first 8 characters.
UuidHexPool ==
    { <<"0", "5", "5", "5", "6", "a", "f", "c">> \o HexTailA,
      <<"0", "5", "5", "5", "6", "a", "f", "c">> \o HexTailB,
      <<"9", "b", "2", "e", "4", "d", "7", "1">> \o HexTailA }

\* The whole of uuid.uuid4().hex (not the code's slice).
UuidHexWhole(u) == u

\* uuid.uuid4().hex[:8]
UuidHex8(u) == SubSeq(u, 1, 8)

\* Every id default generation can produce.
GeneratedIds == { UuidHex8(u) : u \in UuidHexPool }

\* Caller-supplied ids given to set_trace_id: the empty str and a non-hex
\* request id ("req-0001", test_async.py).
ReqId == <<"r", "e", "q", "-", "0", "0", "0", "1">>
CustomIds == { EmptyStr, ReqId }

\* Marker of the history variables: no value (never a str of the program).
NoVal == <<"<none>">>

(***************************************************************************)
(* Adapters (adapters/base.py, console.py, json.py, gcp.py).               *)
(***************************************************************************)
\* BaseAdapter.__init__ keeps the level it is given; ConsoleAdapter adds the
\* colorize flag (default True).
ConsoleAdapter(level) == [kind |-> "Console", level |-> level, colorize |-> TRUE]
JSONAdapter(level) == [kind |-> "JSON", level |-> level]

\* GCPAdapter(level, project_id): project_id defaults to None.
PyNone == <<"<None>">>
NoProject == PyNone
GCPAdapterOf(level, project_id) ==
    [kind |-> "GCP", level |-> level, project_id |-> project_id]
GCPAdapter(level) == GCPAdapterOf(level, NoProject)

\* adapter.get_sink_config(): the keyword arguments handed to loguru's add().
get_sink_config(a) ==
    CASE a.kind = "Console" ->
           [sink |-> "sys.stderr", format |-> "console", level |-> a.level,
            colorize |-> a.colorize]
      [] a.kind = "JSON" ->
           [sink |-> "sys.stdout", format |-> "{message}", level |-> a.level,
            serialize |-> TRUE, colorize |-> FALSE]
      [] a.kind = "GCP" ->
           [sink |-> "GCPAdapter._sink", level |-> a.level, colorize |-> FALSE]

\* The level names the dispatch backend (loguru) knows; add() raises
\* ValueError for any other level name.
LoguruLevels == {"TRACE", "DEBUG", "INFO", "SUCCESS", "WARNING", "ERROR",
                 "CRITICAL"}

\* The handler loguru installs on import (before any remove()).
LoguruDefaultSink ==
    [sink |-> "sys.stderr", format |-> "loguru-default", level |-> "DEBUG"]

\* A default of one Console adapter at INFO (not the code's default).
DefaultAdaptersInfo == <<ConsoleAdapter("INFO")>>

\* configure(): adapters = [ConsoleAdapter()] when None is given; the
\* constructor's default level is "DEBUG".
DefaultAdapters == <<ConsoleAdapter("DEBUG")>>

\* Adapter lists callers pass to configure: the empty list, the lists of the
\* tests, and a list whose second adapter has a level loguru rejects.
NoAdapters == << >>
AdapterLists ==
    { << >>,
      <<ConsoleAdapter("INFO")>>,
      <<ConsoleAdapter("WARNING"), JSONAdapter("DEBUG")>>,
      <<GCPAdapter("WARNING")>>,
      <<JSONAdapter("DEBUG"), ConsoleAdapter("VERBOSE")>> }

\* `for adapter in cls._adapters: _loguru_logger.add(**sink_config)`:
\* the sinks installed one by one, until an add() raises.
RECURSIVE AddSinks(_, _)
AddSinks(hs, ads) ==
    IF ads = << >> THEN [sinks |-> hs, raised |-> FALSE]
    ELSE IF get_sink_config(Head(ads)).level \notin LoguruLevels
         THEN [sinks |-> hs, raised |-> TRUE]
         ELSE AddSinks(Append(hs, get_sink_config(Head(ads))), Tail(ads))

\* A configure that keeps the sinks already installed (not the code's).
LoguruKeep(hs) == hs

\* `_loguru_logger.remove()`: every installed handler is removed, the
\* backend's default handler included.
LoguruRemove(hs) == << >>

\* A configure that reconfigures on every call (not the code's guard).
ConfigureNeverSkips(cfgd) == FALSE

\* `if cls._configured: return`
ConfigureSkips(cfgd) == cfgd

\* The adapters arguments of a call: None (given = FALSE), or one of the
\* lists.
AdapterArgs ==
    {[given |-> FALSE, list |-> NoAdapters]}
        \cup {[given |-> TRUE, list |-> A] : A \in AdapterLists}

\* LoggerCore.configure(adapters) on the core state cs; given = FALSE stands
\* for adapters=None. The adapter list is assigned, every installed sink is
\* removed, the sinks are added, and the flag is set last, so a raising
\* add() leaves the flag as it was. The result carries whether the call
\* raised.
ConfigureCore(cs, given, A) ==
    IF ConfigureSkips(cs.configured)
    THEN [configured |-> cs.configured, adapters |-> cs.adapters,
          sinks |-> cs.sinks, raised |-> FALSE]
    ELSE LET ads == IF given THEN A ELSE DefaultAdapters
             r == AddSinks(LoguruRemove(cs.sinks), ads)
         IN  [configured |-> IF r.raised THEN cs.configured ELSE TRUE,
              adapters |-> ads, sinks |-> r.sinks, raised |-> r.raised]

\* A reset that forgets to clear the flag (not the code's reset).
ResetKeepsFlag(cs) ==
    [configured |-> cs.configured, adapters |-> << >>, sinks |-> << >>]

\* reset_logging() on the core state: remove() every sink, clear the flag and
\* the adapter list.
ResetCore(cs) ==
    [configured |-> FALSE, adapters |-> << >>, sinks |-> << >>]

(***************************************************************************)
(* Foreign (standard-library) loggers (config.py).                         *)
(***************************************************************************)
DefaultStdlibLoggers == {"uvicorn", "uvicorn.access", "uvicorn.error",
                         "fastapi", "sqlalchemy", "sqlalchemy.engine"}
FastapiLoggers == {"uvicorn", "uvicorn.access", "uvicorn.error", "fastapi"}
CustomLoggers == {"custom_logger"}
LoggerNames == {"root"} \cup DefaultStdlibLoggers \cup CustomLoggers

\* The stdlib_loggers arguments callers pass (None: the default list).
StdlibLoggerArgs == {DefaultStdlibLoggers, FastapiLoggers, CustomLoggers}

(***************************************************************************)
(* State.                                                                  *)
(***************************************************************************)
VARIABLES
    ctxState,     \* per context: "free" (no such task now) or "running"
    trace,        \* _trace_id_var: its value in each context
    configured,   \* LoggerCore._configured
    adapters,     \* LoggerCore._adapters
    sinks,        \* the handlers installed in loguru, in order of add()
    stdHandlers,  \* logging.getLogger(name).handlers, by handler class
    stdPropagate, \* logging.getLogger(name).propagate
    own,          \* history: the id each context itself installed/inherited
    wkind,        \* history: kind of the context's last own write
    wval,         \* history: value given to that write
    rval,         \* history: value of the context's last read since then
    last,         \* history: the most recent trace-context operation
    cfgBy,        \* history: the entry point that made the configuration
    lastCfg,      \* history: the most recent Logger Core operation
    lastStd,      \* history: the most recent change of the foreign loggers
    handles,      \* the logger handles the callers hold
    out,          \* what the sinks have emitted, in order of emission
    nlog,         \* number of records constructed so far
    lastLog,      \* history: the most recent log call or bridge emit
    held,         \* the lists callers hold from get_adapters()
    gcp,          \* a record given to the cloud formatter, and its output
    environ,      \* os.environ as configure_logging_from_env last read it
    tool,         \* history: the most recent tool invocation
    thr           \* per thread: its position inside LoggerCore.configure

traceVars == <<ctxState, trace, own, wkind, wval, rval, last>>
coreVars == <<configured, adapters, sinks, cfgBy, lastCfg>>
stdVars == <<stdHandlers, stdPropagate, lastStd>>
extVars == <<environ, tool, thr>>
logVars == <<handles, out, nlog, lastLog, held, gcp, extVars>>
vars == <<traceVars, coreVars, stdVars, logVars>>

\* A plain module-level variable shared by all contexts (not a ContextVar).
SharedVarSet(tr, c, v) == [d \in Ctx |-> v]

\* ContextVar.set(v) executed in context c: only c's binding changes.
CtxVarSet(tr, c, v) == [tr EXCEPT ![c] = v]

\* asyncio.create_task / gather: the task runs in a copy of the spawning
\* context (contextvars.copy_context()), so it starts with the parent's value.
CopyContext(tr, p, c) == [tr EXCEPT ![c] = tr[p]]

\* The record of a trace-context operation: the call, its argument and
\* result, and the id the context held before it (pre; kept for the calls
\* that read or replace it).
Op(op, c, arg, ret, pre) ==
    [op |-> op, ctx |-> c, arg |-> arg, ret |-> ret, pre |-> pre]

\* The record of a Logger Core operation: the entry point, its adapters
\* argument (given = FALSE: None), whether the core was configured before it
\* (was), whether it raised, and whether reset_logging preceded it.
CfgOp(op, given, ads, was, raised) ==
    [op |-> op, given |-> given, ads |-> ads, was |-> was, raised |-> raised,
     afterReset |-> lastCfg.op = "reset_logging"]

Core == [configured |-> configured, adapters |-> adapters, sinks |-> sinks]

\* The record of a change of the foreign loggers: the operation, the
\* intercept_stdlib flag and the logger names of a configure_logging call,
\* whether the call raised, and whether one of the names had a handler
\* before it.
StdOp(op, intercept, ns, raised) ==
    [op |-> op, intercept |-> intercept, ns |-> ns, raised |-> raised,
     had |-> \E n \in ns : stdHandlers[n] # << >>]

\* The two variables in which callers keep logger handles.
HandleSlots == {"h1", "h2"}

\* No handle (a slot not yet assigned).
NoHandle == [name |-> "<none>", trace_id |-> NoVal]

\* No log call yet.
\* No foreign record (a first-party call).
NoForeign == [name |-> "<none>", levelname |-> "<none>", levelno |-> 0]

\* No log call yet.
NoLog ==
    [op |-> "none", ctx |-> MainCtx, slot |-> "none", rec |-> << >>,
     raised |-> FALSE, sinks |-> << >>, failing |-> {}, first |-> 0,
     cur |-> NoVal, was |-> FALSE, foreign |-> NoForeign]

\* No list obtained from get_adapters yet. A held list is a reference: its
\* elements, whether it is the very list object of LoggerCore._adapters
\* (shared), and the last thing the caller did with it.
NoHeld == [list |-> << >>, shared |-> FALSE, op |-> "none"]

\* Nothing given to the cloud formatter yet.
NoGcp == [rec |-> << >>, project_id |-> NoProject, out |-> << >>,
          done |-> FALSE]

\* No environment read yet: no variable is set.
NoEnviron ==
    [LOG_ENV |-> <<"<absent>">>, LOG_LEVEL |-> <<"<absent>">>,
     GOOGLE_CLOUD_PROJECT |-> <<"<absent>">>,
     GCP_PROJECT_ID |-> <<"<absent>">>]

\* No tool invoked yet. An invocation keeps the tool's name, the inbound
\* headers, the outbound requests in the order they were issued, the
\* response to the last of them, how the call ended and what it returned.
NoResponse == <<"none", 0, "none">>
NoTool ==
    [name |-> "none", headers |-> [others |-> FALSE,
                                   authorization |-> <<"<absent>">>],
     requests |-> << >>, response |-> NoResponse, outcome |-> "none",
     result |-> "none", done |-> FALSE]

\* The threads that call configure in parallel, and a thread that has not
\* called it: pc is the statement the thread executes next, arg the list it
\* was given, iter and i the list object and position of its for loop.
Threads == {"T1", "T2"}
NoCall == [pc |-> "idle", arg |-> << >>, iter |-> << >>, i |-> 0]

Init ==
    /\ ctxState = [c \in Ctx |-> IF c = MainCtx THEN "running" ELSE "free"]
    /\ trace = [c \in Ctx |-> EmptyStr]
    /\ configured = FALSE
    /\ adapters = << >>
    /\ sinks = <<LoguruDefaultSink>>
    /\ stdHandlers = [n \in LoggerNames |-> << >>]
    /\ stdPropagate = [n \in LoggerNames |-> TRUE]
    /\ own = [c \in Ctx |-> EmptyStr]
    /\ wkind = [c \in Ctx |-> "none"]
    /\ wval = [c \in Ctx |-> NoVal]
    /\ rval = [c \in Ctx |-> NoVal]
    /\ last = [op |-> "init", ctx |-> MainCtx, arg |-> NoVal, ret |-> NoVal,
               pre |-> NoVal]
    /\ cfgBy = "none"
    /\ lastCfg = [op |-> "init", given |-> FALSE, ads |-> << >>,
                  was |-> FALSE, raised |-> FALSE, afterReset |-> FALSE]
    /\ lastStd = [op |-> "init", intercept |-> FALSE, ns |-> {},
                  raised |-> FALSE, had |-> FALSE]
    /\ handles = [h \in HandleSlots |-> NoHandle]
    /\ out = << >>
    /\ nlog = 0
    /\ lastLog = NoLog
    /\ held = NoHeld
    /\ gcp = NoGcp
    /\ environ = NoEnviron
    /\ tool = NoTool
    /\ thr = [t \in Threads |-> NoCall]

(***************************************************************************)
(* Trace Context (core.py).                                                *)
(***************************************************************************)
\* LoggerCore.get_trace_id in context c, u being the value uuid4().hex has
\* if it is called: the returned id ...
GetTraceIdRet(tr, c, u) ==
    IF Falsy(tr[c]) THEN UuidHex8(u) ELSE tr[c]

\* A read that returns a generated id without installing it (not the
\* code's read).
GetTraceIdNoInstall(tr, c, u) == tr

\* ... and the context variable afterwards (the generated id is installed).
GetTraceIdVar(tr, c, u) ==
    IF Falsy(tr[c]) THEN CtxVarSet(tr, c, UuidHex8(u)) ELSE tr

\* The values uuid4().hex can take in a get_trace_id call: uuid4 is called
\* only when the context holds no id (NoVal stands for "not called").
GetDraws(tr, c) == IF Falsy(tr[c]) THEN UuidHexPool ELSE {NoVal}

\* History kept by every write (set or reset) of context c.
NoteWrite(c, kind, v) ==
    /\ wkind' = [wkind EXCEPT ![c] = kind]
    /\ wval' = [wval EXCEPT ![c] = v]
    /\ rval' = [rval EXCEPT ![c] = NoVal]

\* The body of get_trace_id, called by the operation op of context c.
GetTraceIdIn(c, op) ==
    /\ \E u \in GetDraws(trace, c) :
         /\ trace' = GetTraceIdVar(trace, c, u)
         /\ own' = [own EXCEPT ![c] = GetTraceIdRet(trace, c, u)]
         /\ rval' = [rval EXCEPT ![c] = GetTraceIdRet(trace, c, u)]
         /\ last' = Op(op, c, NoVal, GetTraceIdRet(trace, c, u), trace[c])
    /\ UNCHANGED <<ctxState, wkind, wval>>

get_trace_id(c) ==
    /\ ctxState[c] = "running"
    /\ GetTraceIdIn(c, "get")
    /\ UNCHANGED <<coreVars, stdVars, logVars>>

\* Keeps only the characters of s that are in the set chars.
RECURSIVE Filter(_, _)
Filter(s, chars) ==
    IF s = << >> THEN << >>
    ELSE (IF Head(s) \in chars THEN <<Head(s)>> ELSE << >>)
         \o Filter(Tail(s), chars)

\* A set that normalises its argument to hex characters (not the code's
\* set).
SetValueHexOnly(s) == Filter(s, HexChars)

\* set_trace_id(trace_id) stores its argument as given (no validation).
SetValue(s) == s

set_trace_id(c, s) ==
    /\ ctxState[c] = "running"
    /\ trace' = CtxVarSet(trace, c, SetValue(s))
    /\ own' = [own EXCEPT ![c] = SetValue(s)]
    /\ NoteWrite(c, "set", s)
    /\ last' = Op("set", c, s, NoVal, NoVal)
    /\ UNCHANGED <<ctxState, coreVars, stdVars, logVars>>

\* A reset that generates only when the context holds no id (not the
\* code's reset).
ResetKeepsOld(tr, c, u) == IF Falsy(tr[c]) THEN UuidHex8(u) ELSE tr[c]

\* uuid4().hex[:8] of reset_trace_id.
ResetValue(tr, c, u) == UuidHex8(u)

reset_trace_id(c) ==
    /\ ctxState[c] = "running"
    /\ \E u \in UuidHexPool :
         /\ trace' = CtxVarSet(trace, c, ResetValue(trace, c, u))
         /\ own' = [own EXCEPT ![c] = ResetValue(trace, c, u)]
         /\ NoteWrite(c, "reset", ResetValue(trace, c, u))
         /\ last' = Op("reset", c, NoVal, ResetValue(trace, c, u), trace[c])
    /\ UNCHANGED <<ctxState, coreVars, stdVars, logVars>>

\* The lowest context not in use.
NextFree == CHOOSE c \in Ctx : ctxState[c] = "free" /\
                               \A d \in Ctx : ctxState[d] = "free" => c <= d

\* asyncio.gather(...) / create_task in context p: a new task context.
SpawnTask(p) ==
    /\ ctxState[p] = "running"
    /\ \E f \in Ctx : ctxState[f] = "free"
    /\ LET c == NextFree IN
         /\ ctxState' = [ctxState EXCEPT ![c] = "running"]
         /\ trace' = CopyContext(trace, p, c)
         /\ own' = [own EXCEPT ![c] = trace[p]]
         /\ wkind' = [wkind EXCEPT ![c] = "none"]
         /\ wval' = [wval EXCEPT ![c] = NoVal]
         /\ rval' = [rval EXCEPT ![c] = NoVal]
         /\ last' = Op("spawn", p, NoVal, NoVal, NoVal)
    /\ UNCHANGED <<coreVars, stdVars, logVars>>

\* The task of context c returns: the branch completes and its context
\* (the copy made for it) is dropped.
FinishTask(c) ==
    /\ c # MainCtx
    /\ ctxState[c] = "running"
    /\ ctxState' = [ctxState EXCEPT ![c] = "free"]
    /\ trace' = [trace EXCEPT ![c] = EmptyStr]
    /\ own' = [own EXCEPT ![c] = EmptyStr]
    /\ wkind' = [wkind EXCEPT ![c] = "none"]
    /\ wval' = [wval EXCEPT ![c] = NoVal]
    /\ rval' = [rval EXCEPT ![c] = NoVal]
    /\ last' = Op("finish", c, NoVal, NoVal, NoVal)
    /\ UNCHANGED <<coreVars, stdVars, logVars>>

(***************************************************************************)
(* Logger Core (core.py) and the configuration helpers (config.py).        *)
(***************************************************************************)
\* The effect of LoggerCore.configure on the core variables, called by the
\* entry point op.
ConfigureIn(op, given, A) ==
    LET r == ConfigureCore(Core, given, A) IN
        /\ configured' = r.configured
        /\ adapters' = r.adapters
        /\ sinks' = r.sinks
        /\ cfgBy' = IF configured \/ r.raised THEN cfgBy ELSE op
        /\ lastCfg' = CfgOp(op, given, IF given THEN A ELSE << >>,
                            configured, r.raised)

\* LoggerCore.configure(adapters) called directly.
configure(given, A) ==
    /\ ConfigureIn("configure", given, A)
    /\ UNCHANGED <<traceVars, stdVars, logVars>>

\* LoggerCore.get_logger(name) in context c: configure(), then
\* get_trace_id(); the handle is bound to the id read.
get_logger(c) ==
    /\ ctxState[c] = "running"
    /\ ConfigureIn("get_logger", FALSE, << >>)
    /\ GetTraceIdIn(c, "get_logger")
    /\ UNCHANGED <<stdVars, logVars>>

\* An interception that adds the bridge to the handlers a logger already
\* has (not the code's assignment).
AddBridge(hs, ns) ==
    [n \in LoggerNames |->
        IF n \in ns THEN Append(hs[n], "InterceptHandler") ELSE hs[n]]

\* The interception loop of configure_logging over the logger names ns.
InstallBridge(hs, ns) ==
    [n \in LoggerNames |-> IF n \in ns THEN <<"InterceptHandler">> ELSE hs[n]]
StopPropagation(pr, ns) ==
    [n \in LoggerNames |-> IF n \in ns THEN FALSE ELSE pr[n]]

\* An interception that is set up only by the call that configures the
\* core (not the code's).
InterceptOnlyFirst(intercept, was, raised) == intercept /\ ~raised /\ ~was

\* Whether a configure_logging call reaches its interception loop: configure
\* returned and `if not intercept_stdlib: return` did not; whether the core
\* was configured before the call (was) plays no part.
InterceptRuns(intercept, was, raised) == intercept /\ ~raised

\* configure_logging(adapters, intercept_stdlib, stdlib_loggers). When
\* LoggerCore.configure raises, the exception leaves the function before
\* the interception loop.
configure_logging(given, A, intercept, ns) ==
    /\ ConfigureIn("configure_logging", given, A)
    /\ IF InterceptRuns(intercept, configured,
                        ConfigureCore(Core, given, A).raised)
       THEN /\ stdHandlers' = InstallBridge(stdHandlers, ns)
            /\ stdPropagate' = StopPropagation(stdPropagate, ns)
       ELSE UNCHANGED <<stdHandlers, stdPropagate>>
    /\ lastStd' = StdOp("configure_logging", intercept, ns,
                        ConfigureCore(Core, given, A).raised)
    /\ UNCHANGED <<traceVars, logVars>>

\* A reset that clears the handlers of every logger (not the code's).
BasicConfigAll(hs) ==
    [n \in LoggerNames |-> IF n = "root" THEN <<"StreamHandler">> ELSE << >>]

\* logging.basicConfig(force=True): the root logger's handlers are removed
\* and one StreamHandler is installed.
BasicConfigForce(hs) == [hs EXCEPT !["root"] = <<"StreamHandler">>]

reset_logging ==
    /\ configured' = ResetCore(Core).configured
    /\ adapters' = ResetCore(Core).adapters
    /\ sinks' = ResetCore(Core).sinks
    /\ cfgBy' = "none"
    /\ lastCfg' = CfgOp("reset_logging", FALSE, << >>, configured, FALSE)
    /\ stdHandlers' = BasicConfigForce(stdHandlers)
    /\ lastStd' = StdOp("reset_logging", FALSE, {}, FALSE)
    /\ UNCHANGED <<traceVars, stdPropagate, logVars>>

\* A framework installs its own handler on its logger (uvicorn's logging
\* setup), before or after the bridge is installed.
ForeignHandlerAdded(n) ==
    /\ n \in {"uvicorn"}
    /\ Len(stdHandlers[n]) < 2
    /\ stdHandlers' = [stdHandlers EXCEPT ![n] = Append(@, "StreamHandler")]
    /\ lastStd' = StdOp("handler_added", FALSE, {}, FALSE)
    /\ UNCHANGED <<traceVars, coreVars, stdPropagate, logVars>>

(***************************************************************************)
(* Log records and their dispatch to the installed sinks (core.py; the     *)
(* sinks are registered with loguru's add(), default options).             *)
(***************************************************************************)
\* Number of records constructed in a run, and in a run that varies the
\* sinks.
MaxLog == 3
MaxSinkLog == 1
MaxBridgeLog == 1

\* The severity numbers of the dispatch backend's levels.
LoguruNo(name) ==
    CASE name = "TRACE" -> 5
      [] name = "DEBUG" -> 10
      [] name = "INFO" -> 20
      [] name = "SUCCESS" -> 25
      [] name = "WARNING" -> 30
      [] name = "ERROR" -> 40
      [] name = "CRITICAL" -> 50

\* The level of a record logged under a level name.
Level(name) == [name |-> name, no |-> LoguruNo(name)]

\* BaseAdapter.should_log: `levels`, and str.upper() on the level names the
\* model uses.
ShouldLogLevels == <<"DEBUG", "INFO", "WARNING", "ERROR", "CRITICAL">>
Upper(name) ==
    CASE name = "debug" -> "DEBUG"
      [] name = "info" -> "INFO"
      [] name = "warning" -> "WARNING"
      [] name = "error" -> "ERROR"
      [] name = "critical" -> "CRITICAL"
      [] OTHER -> name

\* list.index(x): the position (0-based) of the first x in l; it raises
\* ValueError when x is not in l.
InList(l, x) == \E i \in 1..Len(l) : l[i] = x
ListIndex(l, x) ==
    (CHOOSE i \in 1..Len(l) : l[i] = x /\ \A j \in 1..(i - 1) : l[j] # x) - 1

\* A should_log that drops records at the threshold itself (not the code's).
ShouldLogStrict(a, level) ==
    IF ~InList(ShouldLogLevels, Upper(a.level))
          \/ ~InList(ShouldLogLevels, Upper(level))
    THEN "ValueError"
    ELSE ListIndex(ShouldLogLevels, Upper(level))
            > ListIndex(ShouldLogLevels, Upper(a.level))

\* adapter.should_log(level)
should_log(a, level) ==
    IF ~InList(ShouldLogLevels, Upper(a.level))
          \/ ~InList(ShouldLogLevels, Upper(level))
    THEN "ValueError"
    ELSE ListIndex(ShouldLogLevels, Upper(level))
            >= ListIndex(ShouldLogLevels, Upper(a.level))

\* The filter of a registered sink: add(level=...) admits a record whose
\* severity number is at least the number of the sink's level.
SinkAdmits(cfg, rec) == rec.level.no >= LoguruNo(cfg.level)

\* A sink registered so that its errors propagate (add(catch=False)).
SinkPropagates(cfg) == FALSE

\* add(**sink_config): no adapter passes `catch`, so the backend's default
\* (catch=True) applies: an error raised while a sink handles a record is
\* caught and reported by the backend, not raised to the caller.
SinkCatches(cfg) == IF "catch" \in DOMAIN cfg THEN cfg.catch ELSE TRUE

\* A log record: its number in order of construction, the context that
\* issued it, the bound logger name and trace id, and its level.
Rec(seq, c, name, level, trace_id) ==
    [seq |-> seq, ctx |-> c, name |-> name, level |-> level,
     trace_id |-> trace_id]

\* The backend hands a record to the sinks in the order they were added;
\* failing is the set of positions of the sinks whose write raises.
RECURSIVE EmitFrom(_, _, _, _, _)
EmitFrom(i, ss, rec, failing, acc) ==
    IF i > Len(ss) THEN [delivered |-> acc, raised |-> FALSE]
    ELSE IF ~SinkAdmits(ss[i], rec)
         THEN EmitFrom(i + 1, ss, rec, failing, acc)
         ELSE IF i \in failing
              THEN IF SinkCatches(ss[i])
                   THEN EmitFrom(i + 1, ss, rec, failing, acc)
                   ELSE [delivered |-> acc, raised |-> TRUE]
              ELSE EmitFrom(i + 1, ss, rec, failing,
                            Append(acc, [idx |-> i, sink |-> ss[i],
                                         rec |-> rec]))

Emit(ss, rec, failing) == EmitFrom(1, ss, rec, failing, << >>)

\* An output that shows the newest emission first (not the backend's).
OutPrepend(o, delivered) == delivered \o o

\* Sinks are registered without `enqueue`: each write happens during the log
\* call, after everything written before.
OutAppend(o, delivered) == o \o delivered

\* The sinks whose write may fail during one log call: none, or one of them.
FailChoices == {{}, {1}, {2}}

\* A handle that reads the trace id of the logging context at each call
\* (not the code's handle).
LiveTraceId(hd, tr, c) == tr[c]

\* _loguru_logger.bind(name=name, trace_id=trace_id): the handle holds the
\* str it was bound with.
BoundTraceId(hd, tr, c) == hd.trace_id

\* The dispatch of the record rec by the operation op (slot: the handle
\* used), the writes of the sinks at the positions in failing raising. The
\* history keeps the id the issuing context holds when the record is
\* built (cur), whether the core was configured then (was), and the foreign
\* record of a bridge emit.
Dispatch(op, slot, rec, failing, cur, foreign) ==
    LET r == Emit(sinks, rec, failing) IN
        /\ failing \subseteq 1..Len(sinks)
        /\ out' = OutAppend(out, r.delivered)
        /\ nlog' = nlog + 1
        /\ lastLog' = [op |-> op, ctx |-> rec.ctx, slot |-> slot,
                       rec |-> rec, raised |-> r.raised,
                       sinks |-> sinks, failing |-> failing,
                       first |-> Len(out) + 1, cur |-> cur,
                       was |-> configured, foreign |-> foreign]

\* Logger names given to get_logger.
HandleNames == {"app"}

\* handle = LoggerCore.get_logger(name) in context c, kept in the caller's
\* variable h: configure(), get_trace_id(), and the handle bound to the name
\* and to the id get_trace_id returned (last'.ret).
GetLogger(c, h, name) ==
    /\ ctxState[c] = "running"
    /\ ConfigureIn("get_logger", FALSE, << >>)
    /\ GetTraceIdIn(c, "get_logger")
    /\ handles' = [handles EXCEPT ![h] =
                      [name |-> name, trace_id |-> last'.ret]]
    /\ lastLog' = [op |-> "get_logger", ctx |-> c, slot |-> h,
                   rec |-> << >>, raised |-> FALSE, sinks |-> sinks,
                   failing |-> {}, first |-> 0, cur |-> last'.ret,
                   was |-> configured, foreign |-> NoForeign]
    /\ UNCHANGED <<stdVars, out, nlog, held, gcp, extVars>>

\* handle.debug / info / warning / error / critical(message) called in
\* context c through the handle kept in h.
LogCall(c, h, levelname, failing) ==
    /\ ctxState[c] = "running"
    /\ handles[h] # NoHandle
    /\ nlog < MaxLog
    /\ Dispatch("log", h,
                Rec(nlog + 1, c, handles[h].name, Level(levelname),
                    BoundTraceId(handles[h], trace, c)),
                failing, trace[c], NoForeign)
    /\ UNCHANGED <<traceVars, coreVars, stdVars, handles, held, gcp, extVars>>

\* A foreign LogRecord: the logger's name, levelname and levelno.
ForeignRec(n, levelname, levelno) ==
    [name |-> n, levelname |-> levelname, levelno |-> levelno]

\* The name the backend gives a record logged under a bare number.
LevelN(no) == "Level " \o ToString(no)

\* A bridge without the fallback: an unknown name is not a level (-1).
BridgeLevelByNameOnly(f) ==
    IF f.levelname \in LoguruLevels THEN Level(f.levelname)
    ELSE [name |-> f.levelname, no |-> -1]

\* `try: level = logger.level(record.levelname).name / except ValueError:
\* level = record.levelno`, and the level log(level, ...) gives the record.
BridgeLevel(f) ==
    IF f.levelname \in LoguruLevels THEN Level(f.levelname)
    ELSE [name |-> LevelN(f.levelno), no |-> f.levelno]

\* `trace_id = LoggerCore.get_trace_id()` in emit: the id returned in the
\* emitting context.
EmitTraceId(tr, c, ret) == ret

\* InterceptHandler.emit(record), run in context c by a foreign logger that
\* has the bridge among its handlers: the level is looked up, get_trace_id()
\* is called, and the record is logged bound to that id and to the foreign
\* logger's name. log() raises ValueError for a level that is neither a
\* known name nor a number >= 0. LoggerCore.configure is not called.
InterceptEmit(c, f) ==
    /\ ctxState[c] = "running"
    /\ \E i \in 1..Len(stdHandlers[f.name]) :
          stdHandlers[f.name][i] = "InterceptHandler"
    /\ nlog < MaxLog
    /\ GetTraceIdIn(c, "emit")
    /\ LET rec == Rec(nlog + 1, c, f.name, BridgeLevel(f),
                      EmitTraceId(trace, c, last'.ret))
       IN  IF rec.level.no < 0
           THEN /\ nlog' = nlog + 1
                /\ lastLog' = [op |-> "bridge", ctx |-> c, slot |-> f.name,
                               rec |-> rec, raised |-> TRUE,
                               sinks |-> sinks, failing |-> {},
                               first |-> Len(out) + 1, cur |-> trace'[c],
                               was |-> configured, foreign |-> f]
                /\ UNCHANGED out
           ELSE Dispatch("bridge", f.name, rec, {}, trace'[c], f)
    /\ UNCHANGED <<coreVars, stdVars, handles, held, gcp, extVars>>

\* `logging.getLogger(name).handlers = [InterceptHandler()]` and
\* `propagate = False` done by the application itself.
InstallInterceptHandler(n) ==
    /\ stdHandlers[n] # <<"InterceptHandler">>
    /\ stdHandlers' = InstallBridge(stdHandlers, {n})
    /\ stdPropagate' = StopPropagation(stdPropagate, {n})
    /\ lastStd' = StdOp("install", TRUE, {n}, FALSE)
    /\ UNCHANGED <<traceVars, coreVars, logVars>>

\* Longest list a caller builds by appending to a list it holds.
MaxHeld == 3

\* A get_adapters that hands out the list object itself (not the code's).
GetAdaptersSame(ads) == [list |-> ads, shared |-> TRUE, op |-> "get"]

\* `return cls._adapters.copy()`: a new list with the same elements.
GetAdaptersCopy(ads) == [list |-> ads, shared |-> FALSE, op |-> "get"]

\* held = LoggerCore.get_adapters()
CallGetAdapters ==
    /\ held' = GetAdaptersCopy(adapters)
    /\ UNCHANGED <<traceVars, coreVars, stdVars, handles, out, nlog,
                   lastLog, gcp, extVars>>

\* list.append(x), list.remove(list[0]) and list.clear() on a list l.
ListMutations(l) ==
    (IF Len(l) < MaxHeld THEN {Append(l, JSONAdapter("ERROR"))} ELSE {})
        \cup (IF l # << >> THEN {Tail(l), << >>} ELSE {})

\* The caller mutates the list it holds. A list is an object: were the held
\* reference the core's own list, the core's list would change with it.
MutateHeld ==
    /\ held.op # "none"
    /\ \E l \in ListMutations(held.list) :
          /\ held' = [list |-> l, shared |-> held.shared, op |-> "mutate"]
          /\ adapters' = IF held.shared THEN l ELSE adapters
    /\ UNCHANGED <<traceVars, configured, sinks, cfgBy, lastCfg, stdVars,
                   handles, out, nlog, lastLog, gcp, extVars>>

\* LoggerCore.is_configured() and LoggerCore.get_adapters() (a copy of the
\* list).
is_configured == configured
get_adapters == adapters

(***************************************************************************)
(* The cloud-schema formatter (adapters/gcp.py).                           *)
(***************************************************************************)
\* Python truthiness of an optional str: None and "" are false.
Truthy(v) == v # PyNone /\ ~Falsy(v)

\* A dict over the keys the formatter can meet is a record with one field
\* per key, Absent marking a key the dict does not have. The field trace
\* stands for the key "logging.googleapis.com/trace" and sourceLocation for
\* "logging.googleapis.com/sourceLocation". A str whose characters play no
\* part is kept whole, as <<str>>.
Absent == <<"<absent>">>
Has(d, k) == d[k] # Absent

\* dict.get(key, default)
DictGet(d, k, default) == IF Has(d, k) THEN d[k] ELSE default

\* level_map.get(record["level"].name, "INFO")
level_map(name) ==
    CASE name \in {"TRACE", "DEBUG"} -> "DEBUG"
      [] name \in {"INFO", "SUCCESS"} -> "INFO"
      [] name = "WARNING" -> "WARNING"
      [] name = "ERROR" -> "ERROR"
      [] name = "CRITICAL" -> "CRITICAL"
      [] OTHER -> "INFO"

\* GCPAdapter._is_gcp_trace_id: re.fullmatch(r"[0-9a-f]{32}", value)
TraceIdLen == 32
is_gcp_trace_id(value) ==
    /\ Len(value) = TraceIdLen
    /\ \A i \in 1..Len(value) : value[i] \in HexChars

\* f"projects/{project_id}/traces/{trace_id}"
TracePath(project_id, trace_id) ==
    <<"p", "r", "o", "j", "e", "c", "t", "s", "/">> \o project_id
        \o <<"/", "t", "r", "a", "c", "e", "s", "/">> \o trace_id

\* `trace_id = str(record["extra"].get("trace_id", "") or "")`
ExtraTraceId(extra) ==
    LET v == DictGet(extra, "trace_id", EmptyStr)
    IN  IF Truthy(v) THEN v ELSE EmptyStr

\* The value of key k after `for key, value in record["extra"].items(): if
\* key not in ["trace_id", "name"]: log_entry[key] = value`, v being the
\* value before the loop.
AfterExtras(extra, k, v) ==
    IF k \notin {"trace_id", "name"} /\ Has(extra, k) THEN extra[k] ELSE v

\* GCPAdapter._gcp_formatter(record) of the adapter a: the object that
\* json.dumps serialises (one JSON object with these keys and values).
gcp_formatter(a, record) ==
    LET trace_id == ExtraTraceId(record.extra)
        logger_name == DictGet(record.extra, "name", PyNone)
        x == record.extra
    IN  [severity |-> AfterExtras(x, "severity",
                                  <<level_map(record.level.name)>>),
         message |-> AfterExtras(x, "message", record.message),
         timestamp |-> AfterExtras(x, "timestamp", record.time),
         sourceLocation |-> AfterExtras(x, "sourceLocation",
                                        record.location),
         trace_id |-> IF ~Falsy(trace_id) THEN trace_id ELSE Absent,
         trace |-> AfterExtras(x, "trace",
                      IF ~Falsy(trace_id) /\ Truthy(a.project_id)
                          /\ is_gcp_trace_id(trace_id)
                      THEN TracePath(a.project_id, trace_id)
                      ELSE Absent),
         logger |-> IF Truthy(logger_name) THEN logger_name ELSE Absent,
         order_id |-> AfterExtras(x, "order_id", Absent)]

\* The record GCPAdapter._sink hands to the formatter: the level, the
\* message, time and source location of the call, and the extras (the
\* values bound to the handle, overridden by the keyword arguments of the
\* log call).
GcpRecord(levelname, extra) ==
    [level |-> [name |-> levelname],
     message |-> <<"Started processing order">>,
     time |-> <<"2026-01-01T00:00:00Z">>,
     location |-> <<"example_async.py:27">>,
     extra |-> extra]

\* The extras of a record: trace_id t and name n (Absent: not bound), and a
\* further keyword argument of the log call under the key kw.
ExtraValue(kw, k, v) == IF kw = k THEN v ELSE Absent
GcpExtra(t, n, kw) ==
    [trace_id |-> t, name |-> n,
     order_id |-> ExtraValue(kw, "order_id", <<"7">>),
     trace |-> ExtraValue(kw, "trace", <<"j", "u", "n", "k">>),
     severity |-> ExtraValue(kw, "severity", <<"high">>),
     message |-> ExtraValue(kw, "message", <<"payload">>),
     timestamp |-> ExtraValue(kw, "timestamp", <<"1700000000">>),
     sourceLocation |-> ExtraValue(kw, "sourceLocation", <<"eu-north">>)]

\* GCPAdapter(project_id=pid)._sink(message) for a message logged at the
\* level l with the extras t, n, kw: the line written is the formatter's
\* output for message.record.
GcpSink(l, t, n, kw, pid) ==
    /\ LET record == GcpRecord(l, GcpExtra(t, n, kw))
       IN  gcp' = [rec |-> record, project_id |-> pid,
                   out |-> gcp_formatter(GCPAdapterOf("DEBUG", pid), record),
                   done |-> TRUE]
    /\ UNCHANGED <<traceVars, coreVars, stdVars, handles, out, nlog,
                   lastLog, held, extVars>>

(***************************************************************************)
(* Configuration from the environment (config.py).                         *)
(***************************************************************************)
\* GOOGLE_ENV_VALUE = "google"
GOOGLE_ENV_VALUE == <<"g", "o", "o", "g", "l", "e">>

\* PROJECT_ID_VARS, in the order the loop visits them.
PROJECT_ID_VARS == <<"GOOGLE_CLOUD_PROJECT", "GCP_PROJECT_ID">>

\* str.strip(): leading and trailing whitespace is removed.
Whitespace == {" ", "\t", "\n"}
RECURSIVE LStrip(_)
LStrip(s) ==
    IF s # << >> /\ Head(s) \in Whitespace THEN LStrip(Tail(s)) ELSE s
RECURSIVE RStrip(_)
RStrip(s) ==
    IF s # << >> /\ s[Len(s)] \in Whitespace
    THEN RStrip(SubSeq(s, 1, Len(s) - 1))
    ELSE s
Strip(s) == RStrip(LStrip(s))

\* str.lower(), on the letters the environment values are written with.
LowerChar(ch) ==
    CASE ch = "G" -> "g"
      [] ch = "O" -> "o"
      [] ch = "L" -> "l"
      [] ch = "E" -> "e"
      [] ch = "C" -> "c"
      [] ch = "P" -> "p"
      [] OTHER -> ch
Lower(s) == [i \in 1..Len(s) |-> LowerChar(s[i])]

\* A reading of LOG_ENV that compares the raw value (not the code's).
LogEnvRaw(env) == DictGet(env, "LOG_ENV", EmptyStr)

\* log_env = os.environ.get(LOG_ENV_VAR, "").strip().lower()
LogEnv(env) == Lower(Strip(DictGet(env, "LOG_ENV", EmptyStr)))

\* level = os.environ.get(LOG_LEVEL_VAR, "INFO"); a level is kept as <<str>>
\* in the environment.
EnvLevel(env) == DictGet(env, "LOG_LEVEL", <<"INFO">>)[1]

\* The loop over PROJECT_ID_VARS: project_id is os.environ.get(var) of each
\* variable in turn (None when it is not set), and the loop stops at the
\* first truthy value.
RECURSIVE ProjectIdLoop(_, _, _)
ProjectIdLoop(env, vs, pid) ==
    IF vs = << >> THEN pid
    ELSE LET v == DictGet(env, Head(vs), PyNone) IN
             IF Truthy(v) THEN v ELSE ProjectIdLoop(env, Tail(vs), v)
EnvProjectId(env) == ProjectIdLoop(env, PROJECT_ID_VARS, PyNone)

\* The adapter list configure_logging_from_env builds from the environment.
EnvAdapters(env) ==
    IF LogEnv(env) = GOOGLE_ENV_VALUE
    THEN <<GCPAdapterOf(EnvLevel(env), EnvProjectId(env))>>
    ELSE <<ConsoleAdapter(EnvLevel(env))>>

\* configure_logging_from_env() with no keyword arguments, in a process
\* whose environment has the four variables at le, ll, p1 and p2: the
\* adapter list is built and handed to configure_logging, which intercepts
\* the default foreign loggers unless configure raised.
configure_logging_from_env(le, ll, p1, p2) ==
    LET env == [LOG_ENV |-> le, LOG_LEVEL |-> ll,
                GOOGLE_CLOUD_PROJECT |-> p1, GCP_PROJECT_ID |-> p2]
        A == EnvAdapters(env)
        raised == ConfigureCore(Core, TRUE, A).raised
    IN  /\ environ' = env
        /\ ConfigureIn("configure_logging_from_env", TRUE, A)
        /\ IF ~raised
           THEN /\ stdHandlers' = InstallBridge(stdHandlers,
                                                DefaultStdlibLoggers)
                /\ stdPropagate' = StopPropagation(stdPropagate,
                                                   DefaultStdlibLoggers)
           ELSE UNCHANGED <<stdHandlers, stdPropagate>>
        /\ lastStd' = StdOp("configure_logging_from_env", TRUE,
                            DefaultStdlibLoggers, raised)
        /\ UNCHANGED <<traceVars, handles, out, nlog, lastLog, held, gcp, tool,
                       thr>>

(***************************************************************************)
(* The onboarding tools (apps/onboarding-mcp: utils.py, tools/*.py).       *)
(***************************************************************************)
\* The tools of tools/users.py, which call the remote API, and the httpx
\* function each one calls (the tools of the other modules have the same
\* body: get_api_key, one httpx call, raise_for_status, json); log_request
\* (tools/debug.py) calls none.
ApiTools == {"list_users", "create_user", "update_user", "get_colleague"}
ToolNames == ApiTools \cup {"log_request"}
Method(t) ==
    CASE t = "create_user" -> "POST"
      [] t = "update_user" -> "PUT"
      [] OTHER -> "GET"

\* "Bearer "
Bearer == <<"B", "e", "a", "r", "e", "r", " ">>

\* str.replace(old, ""): every occurrence of old is removed, left to right.
RECURSIVE RemoveAll(_, _)
RemoveAll(s, old) ==
    IF Len(s) < Len(old) THEN s
    ELSE IF SubSeq(s, 1, Len(old)) = old
         THEN RemoveAll(SubSeq(s, Len(old) + 1, Len(s)), old)
         ELSE <<Head(s)>> \o RemoveAll(Tail(s), old)

\* A get_api_key that returns the header value as it is (not the code's).
KeepScheme(api_key) == api_key

\* api_key.replace("Bearer ", "")
StripBearer(api_key) == RemoveAll(api_key, Bearer)

\* The inbound headers (of ctx.request_context.request, or of
\* get_http_headers()) are a dict: whether it has the key "authorization",
\* and whether it has any other key. `not headers` holds for the empty dict.
HeadersEmpty(h) == ~h.others /\ ~Has(h, "authorization")

\* get_api_key(ctx): ValueError when there are no headers or the
\* authorization value is missing or falsy; otherwise the value without
\* "Bearer ".
get_api_key(h) ==
    IF HeadersEmpty(h)
    THEN [raised |-> TRUE, api_key |-> PyNone]
    ELSE IF ~Truthy(DictGet(h, "authorization", PyNone))
         THEN [raised |-> TRUE, api_key |-> PyNone]
         ELSE [raised |-> FALSE, api_key |-> StripBearer(h.authorization)]

\* A response is <<transport, status, body>>: the request timed out, or a
\* response arrived with a status and a body that is JSON or is not.
\* response.raise_for_status() raises for a 4xx or 5xx status.
IsErrorStatus(status) == status >= 400 /\ status < 600

\* How a tool that calls the API ends, given the response to its request.
ApiOutcome(resp) ==
    CASE resp[1] = "timeout" -> "TransportError"
      [] resp[1] = "ok" /\ IsErrorStatus(resp[2]) -> "HTTPStatusError"
      [] resp[1] = "ok" /\ ~IsErrorStatus(resp[2]) /\ resp[3] # "json"
           -> "JSONDecodeError"
      [] OTHER -> "returned"

\* The outcome of the body of the tool t on the headers h and the response
\* resp: get_api_key, then (for a tool that calls the API) one httpx call
\* with the bearer header, raise_for_status, response.json().
ToolRun(t, h, resp) ==
    LET k == get_api_key(h) IN
        IF k.raised
        THEN [name |-> t, headers |-> h, requests |-> << >>,
              response |-> NoResponse, outcome |-> "ValueError",
              result |-> "none", done |-> TRUE]
        ELSE IF t \notin ApiTools
             THEN [name |-> t, headers |-> h, requests |-> << >>,
                   response |-> NoResponse, outcome |-> "returned",
                   result |-> "json", done |-> TRUE]
             ELSE [name |-> t, headers |-> h,
                   requests |-> <<[method |-> Method(t),
                                   Authorization |-> Bearer \o k.api_key]>>,
                   response |-> resp, outcome |-> ApiOutcome(resp),
                   result |-> IF ApiOutcome(resp) = "returned" THEN "json"
                              ELSE "none",
                   done |-> TRUE]

\* One invocation of the tool t, whose module holds the handle `logger`
\* (slot h1, made by get_logger at import): the body runs, and a call that
\* is about to return logs one INFO record first.
ToolCall(t, others, auth, resp) ==
    LET r == ToolRun(t, [others |-> others, authorization |-> auth], resp)
    IN  /\ handles["h1"] # NoHandle
        /\ tool' = r
        /\ IF r.outcome = "returned"
           THEN /\ nlog < MaxLog
                /\ Dispatch("log", "h1",
                            Rec(nlog + 1, MainCtx, handles["h1"].name,
                                Level("INFO"),
                                BoundTraceId(handles["h1"], trace, MainCtx)),
                            {}, trace[MainCtx], NoForeign)
           ELSE UNCHANGED <<out, nlog, lastLog>>
        /\ UNCHANGED <<traceVars, coreVars, stdVars, handles, held, gcp,
                       environ, thr>>

(***************************************************************************)
(* LoggerCore.configure called by parallel threads (core.py). The method   *)
(* takes no lock, so the threads interleave between its statements; each   *)
(* statement, and each remove() and add() of the backend, is atomic.       *)
(***************************************************************************)
ThreadTo(t, pc) == thr' = [thr EXCEPT ![t].pc = pc]

\* `if cls._configured: return` of a call configure(A) by thread t.
ThreadCheck(t, A) ==
    /\ thr[t].pc = "idle"
    /\ thr' = [thr EXCEPT ![t] =
                  [pc |-> IF ConfigureSkips(configured) THEN "returned"
                          ELSE "assign",
                   arg |-> A, iter |-> << >>, i |-> 0]]
    /\ UNCHANGED <<traceVars, coreVars, stdVars, handles, out, nlog,
                   lastLog, held, gcp, environ, tool>>

\* `cls._adapters = adapters`
ThreadAssign(t) ==
    /\ thr[t].pc = "assign"
    /\ adapters' = thr[t].arg
    /\ ThreadTo(t, "remove")
    /\ UNCHANGED <<traceVars, configured, sinks, cfgBy, lastCfg, stdVars,
                   handles, out, nlog, lastLog, held, gcp, environ, tool>>

\* `_loguru_logger.remove()`
ThreadRemove(t) ==
    /\ thr[t].pc = "remove"
    /\ sinks' = << >>
    /\ ThreadTo(t, "for")
    /\ UNCHANGED <<traceVars, configured, adapters, cfgBy, lastCfg, stdVars,
                   handles, out, nlog, lastLog, held, gcp, environ, tool>>

\* `for adapter in cls._adapters:` the loop starts on the list object the
\* class attribute holds at that moment.
ThreadFor(t) ==
    /\ thr[t].pc = "for"
    /\ thr' = [thr EXCEPT ![t].pc = "add", ![t].iter = adapters, ![t].i = 1]
    /\ UNCHANGED <<traceVars, coreVars, stdVars, handles, out, nlog,
                   lastLog, held, gcp, environ, tool>>

\* One turn of the loop: `_loguru_logger.add(**adapter.get_sink_config())`,
\* which raises for a level the backend does not know; after the last
\* adapter the loop ends.
ThreadAdd(t) ==
    /\ thr[t].pc = "add"
    /\ IF thr[t].i > Len(thr[t].iter)
       THEN ThreadTo(t, "flag") /\ UNCHANGED sinks
       ELSE LET config == get_sink_config(thr[t].iter[thr[t].i]) IN
                IF config.level \notin LoguruLevels
                THEN ThreadTo(t, "raised") /\ UNCHANGED sinks
                ELSE /\ sinks' = Append(sinks, config)
                     /\ thr' = [thr EXCEPT ![t].i = @ + 1]
    /\ UNCHANGED <<traceVars, configured, adapters, cfgBy, lastCfg, stdVars,
                   handles, out, nlog, lastLog, held, gcp, environ, tool>>

\* `cls._configured = True`
ThreadFlag(t) ==
    /\ thr[t].pc = "flag"
    /\ configured' = TRUE
    /\ cfgBy' = "configure"
    /\ ThreadTo(t, "returned")
    /\ UNCHANGED <<traceVars, adapters, sinks, lastCfg, stdVars, handles,
                   out, nlog, lastLog, held, gcp, environ, tool>>

(***************************************************************************)
(* Specifications.                                                         *)
(***************************************************************************)
\* The trace context under concurrent tasks.
NextTrace ==
    \/ \E c \in Ctx : get_trace_id(c)
    \/ \E c \in Ctx, s \in CustomIds : set_trace_id(c, s)
    \/ \E c \in Ctx : reset_trace_id(c)
    \/ \E p \in Ctx : SpawnTask(p)
    \/ \E c \in Ctx : FinishTask(c)

\* Logger Core and the configuration helpers, called from the main context.
NextCore ==
    \/ \E a \in AdapterArgs : configure(a.given, a.list)
    \/ get_logger(MainCtx)
    \/ \E a \in AdapterArgs, ns \in StdlibLoggerArgs :
          configure_logging(a.given, a.list, TRUE, ns)
    \/ \E a \in AdapterArgs :
          configure_logging(a.given, a.list, FALSE, DefaultStdlibLoggers)
    \/ reset_logging
    \/ \E n \in LoggerNames : ForeignHandlerAdded(n)

\* Log calls through handles held by the main context and one task; the
\* main context resets its id before it starts the task, the task sets the
\* id of its request.
SpawnOneTask ==
    /\ \A c \in Ctx \ {MainCtx} : ctxState[c] = "free"
    /\ SpawnTask(MainCtx)

NextLog ==
    \/ \E c \in Ctx, h \in HandleSlots, n \in HandleNames : GetLogger(c, h, n)
    \/ \E c \in Ctx, h \in HandleSlots : LogCall(c, h, "INFO", {})
    \/ \E c \in Ctx \ {MainCtx} : set_trace_id(c, ReqId)
    \/ (\A c \in Ctx \ {MainCtx} : ctxState[c] = "free")
          /\ reset_trace_id(MainCtx)
    \/ SpawnOneTask

\* Log calls of every level through one handle, to the sinks of several
\* configurations, some of whose writes fail.
SinkAdapterLists ==
    { <<ConsoleAdapter("WARNING"), JSONAdapter("DEBUG")>>,
      <<JSONAdapter("INFO"), GCPAdapter("ERROR")>>,
      <<ConsoleAdapter("CRITICAL")>> }

NextSinks ==
    \/ \E A \in SinkAdapterLists : configure(TRUE, A)
    \/ reset_logging
    \/ GetLogger(MainCtx, "h1", "app")
    \/ \E i \in 1..Len(ShouldLogLevels), f \in FailChoices :
          nlog < MaxSinkLog /\ LogCall(MainCtx, "h1", ShouldLogLevels[i], f)

\* The foreign records of the run: the standard levels, a level name the
\* application registered (logging.addLevelName(15, "VERBOSE")), and a bare
\* number (logger.log(35, ...), which the standard library names
\* "Level 35").
ForeignLevels ==
    {<<"INFO", 20>>, <<"WARNING", 30>>, <<"VERBOSE", 15>>, <<"Level 35", 35>>}
ForeignNames == {"uvicorn", "custom_logger"}
ForeignRecs ==
    {ForeignRec(n, l[1], l[2]) : n \in ForeignNames, l \in ForeignLevels}

\* The adapter lists given to configure_logging in the run of the bridge.
BridgeAdapterArgs ==
    {[given |-> FALSE, list |-> NoAdapters],
     [given |-> TRUE,
      list |-> <<JSONAdapter("INFO"), ConsoleAdapter("WARNING")>>]}

\* The bridge: foreign loggers emit before any configure, while configured
\* and after reset_logging, from the main context and from one task.
NextBridge ==
    \/ \E a \in BridgeAdapterArgs :
          configure_logging(a.given, a.list, TRUE, FastapiLoggers)
    \/ reset_logging
    \/ InstallInterceptHandler("custom_logger")
    \/ \E c \in Ctx, f \in ForeignRecs :
          nlog < MaxBridgeLog /\ InterceptEmit(c, f)
    \/ \E c \in Ctx \ {MainCtx} : set_trace_id(c, ReqId)
    \/ SpawnOneTask

\* The inputs of the cloud formatter. Trace ids: a 32-character lowercase
\* hex id, a default 8-character id, a request id, 32 uppercase hex
\* characters, 33 hex characters, the empty str and None (given as keyword
\* arguments of the log call), and no trace id at all (a record logged
\* through the backend directly).
MyProject == <<"m", "y", "-", "p", "r", "o", "j", "e", "c", "t">>
Hex32 == <<"0", "5", "5", "5", "6", "a", "f", "c">> \o HexTailA
GcpTraceIds ==
    {Hex32, UuidHex8(Hex32), ReqId, [i \in 1..TraceIdLen |-> "A"],
     Hex32 \o <<"0">>, EmptyStr, PyNone}
GcpProjectIds == {NoProject, EmptyStr, MyProject}
GcpLevelNames == {"INFO", "SUCCESS", "WARNING", "Level 35"}

GcpNames == {Absent, <<"a", "p", "p">>}
GcpKwargs == {"none", "order_id", "trace", "severity", "message",
              "timestamp", "sourceLocation"}

\* The cloud formatter applied to any record.
NextGcp ==
    \E l \in GcpLevelNames, t \in GcpTraceIds \cup {Absent}, n \in GcpNames,
       kw \in GcpKwargs, pid \in GcpProjectIds :
        GcpSink(l, t, n, kw, pid)

\* Callers that take the adapter list and change their copy, around
\* configure and reset_logging.
NextHeld ==
    \/ \E A \in SinkAdapterLists : configure(TRUE, A)
    \/ get_logger(MainCtx)
    \/ reset_logging
    \/ CallGetAdapters
    \/ MutateHeld

\* The environments of a deployment: LOG_ENV not set, the marker in three
\* spellings, another value and the marker with a space inside; LOG_LEVEL
\* not set, two levels and a lowercase spelling loguru rejects; the first
\* project variable not set, empty or set, the second not set or set.
OtherProject == <<"o", "t", "h", "e", "r">>
EnvLogEnvs ==
    {Absent, GOOGLE_ENV_VALUE,
     <<" ", "G", "o", "o", "g", "l", "e", " ">>,
     <<"G", "O", "O", "G", "L", "E", "\n">>,
     <<"g", "c", "p">>, <<"g", "o", " ", "o", "g", "l", "e">>}
EnvLogLevels == {Absent, <<"INFO">>, <<"WARNING">>, <<"debug">>}
EnvProjects1 == {Absent, EmptyStr, MyProject}
EnvProjects2 == {Absent, OtherProject}

\* Processes configured from their environment, and reset.
NextEnv ==
    \/ \E le \in EnvLogEnvs, ll \in EnvLogLevels, p1 \in EnvProjects1,
          p2 \in EnvProjects2 :
            configure_logging_from_env(le, ll, p1, p2)
    \/ reset_logging

\* The inbound Authorization values (none, empty, with and without the
\* scheme) and the responses of the remote API.
Token == <<"t", "k">>
AuthValues == {Absent, EmptyStr, Bearer \o Token, Token}
Responses ==
    {<<"ok", 200, "json">>, <<"ok", 200, "text">>, <<"ok", 404, "json">>,
     <<"ok", 500, "text">>, <<"timeout", 0, "none">>}

\* The tool modules are imported, and tools are invoked.
NextTool ==
    \/ GetLogger(MainCtx, "h1", "app")
    \/ \E t \in ToolNames, others \in BOOLEAN, auth \in AuthValues,
          resp \in Responses :
            ToolCall(t, others, auth, resp)

\* The adapter lists parallel callers give to configure.
ThreadLists ==
    { <<ConsoleAdapter("WARNING"), JSONAdapter("DEBUG")>>,
      <<JSONAdapter("INFO"), GCPAdapter("ERROR")>>,
      <<ConsoleAdapter("CRITICAL")>> }

\* Threads that each call configure once, starting from the state after
\* import.
NextThreads ==
    \E t \in Threads :
        \/ \E A \in ThreadLists : ThreadCheck(t, A)
        \/ ThreadAssign(t)
        \/ ThreadRemove(t)
        \/ ThreadFor(t)
        \/ ThreadAdd(t)
        \/ ThreadFlag(t)

Next == NextTrace \/ NextCore \/ NextLog \/ NextSinks \/ NextBridge
            \/ NextGcp \/ NextHeld \/ NextEnv \/ NextTool
            \/ NextThreads

SpecTrace == Init /\ [][NextTrace]_vars
SpecCore == Init /\ [][NextCore]_vars
SpecLog == Init /\ [][NextLog]_vars
SpecSinks == Init /\ [][NextSinks]_vars
SpecBridge == Init /\ [][NextBridge]_vars
SpecGcp == Init /\ [][NextGcp]_vars
SpecHeld == Init /\ [][NextHeld]_vars
SpecEnv == Init /\ [][NextEnv]_vars
SpecTool == Init /\ [][NextTool]_vars
SpecThreads == Init /\ [][NextThreads]_vars
Spec == Init /\ [][Next]_vars

(***************************************************************************)
(* Properties of the trace context (checked under SpecTrace).              *)
(***************************************************************************)
Live(c) == ctxState[c] = "running"

\* A str of exactly 8 characters, each in 0-9a-f.
IsHex8(s) == Len(s) = 8 /\ \A i \in 1..Len(s) : s[i] \in HexChars

\* C1: trace-id isolation. Every live context holds exactly the id it
\* installed itself (by its own set, reset or generating read) or inherited
\* when it was spawned: no set or reset of another context, and no spawning
\* or completion of a branch, changes the id a context reads.
C1_TraceIdIsolation ==
    \A d \in Ctx : Live(d) => trace[d] = own[d]

\* Reached: a context has just written its id while another live context,
\* which wrote its own id before, still holds a different one.
C1_Witness ==
    /\ last.op \in {"set", "reset"}
    /\ \E d \in Ctx :
         /\ d # last.ctx /\ Live(d)
         /\ wkind[d] # "none"
         /\ ~Falsy(trace[d])
         /\ trace[d] # trace[last.ctx]

\* A context that called reset_trace_id and then get_trace_id.
ResetThenRead(c) == Live(c) /\ wkind[c] = "reset" /\ rval[c] # NoVal

C3_ReadsReturnSetId ==
    (last.op = "get" /\ wkind[last.ctx] = "set") =>
        last.ret = wval[last.ctx]

\* C3 amended: after set_trace_id(x) with x non-empty every get_trace_id of
\* that context returns x, whatever other contexts did meanwhile; after
\* set_trace_id("") the reads return the 8-hex id the first read generated.
C3_ReadsReturnNonEmptySetId ==
    (last.op = "get" /\ wkind[last.ctx] = "set") =>
        IF ~Falsy(wval[last.ctx])
        THEN last.ret = wval[last.ctx]
        ELSE IsHex8(last.ret) /\ last.ret = trace[last.ctx]

\* Reached: a read that is not the first one after the set (the context has
\* read before) returns the id set, while another live context has written
\* a different id of its own.
C3_Witness ==
    /\ last.op = "get"
    /\ wkind[last.ctx] = "set"
    /\ last.ret = ReqId
    /\ last.pre = ReqId
    /\ \E d \in Ctx :
         d # last.ctx /\ Live(d) /\ wkind[d] = "reset" /\ trace[d] # ReqId

\* C4 as stated: set_trace_id(s) immediately followed by get_trace_id() in
\* the same context returns s, for every s.
C4_SetThenGetReturnsArg ==
    [][(last.op = "set" /\ last'.op = "get" /\ last'.ctx = last.ctx)
          => last'.ret = last.arg]_vars

\* C4 amended: it returns s for every non-empty s, of any format; for the
\* empty string it returns a generated 8-hex id.
C4_SetThenGetReturnsNonEmptyArg ==
    [][(last.op = "set" /\ last'.op = "get" /\ last'.ctx = last.ctx)
          => IF ~Falsy(last.arg) THEN last'.ret = last.arg
             ELSE IsHex8(last'.ret)]_vars

\* Reached: a read that found the non-hex id "req-0001" installed by the
\* context's set_trace_id and returned it.
C4_Witness ==
    /\ last.op = "get"
    /\ wkind[last.ctx] = "set" /\ wval[last.ctx] = ReqId
    /\ last.pre = ReqId /\ last.ret = ReqId
    /\ ~IsHex8(last.ret)

\* C5: a get_trace_id of a context that has read since its last set/reset
\* returns the value the previous read returned.
C5_ConsecutiveReadsAgree ==
    [][\A c \in Ctx :
          (last'.op = "get" /\ last'.ctx = c /\ rval[c] # NoVal)
              => last'.ret = rval[c]]_vars

\* Reached: the main context, which never set or reset its id, reads an id
\* that an earlier read of its own generated and installed.
C5_Witness ==
    /\ last.op = "get" /\ last.ctx = MainCtx
    /\ wkind[MainCtx] = "none"
    /\ ~Falsy(last.pre)
    /\ last.ret = last.pre

OnlyRead(c) == Live(c) /\ wkind[c] = "none" /\ rval[c] # NoVal

\* C7: concurrently running tasks that only read their id observe ids that
\* differ from each other.
C7_ReadersGetOwnIds ==
    \A c, d \in Ctx :
        (c # d /\ OnlyRead(c) /\ OnlyRead(d)) => rval[c] # rval[d]

\* C22: every trace id produced by default generation, by get_trace_id in a
\* context that holds none or by reset_trace_id, is exactly 8 characters
\* long, each one of 0-9a-f.
DefaultGenerated ==
    \/ last.op = "reset"
    \/ last.op = "get" /\ Falsy(last.pre)
C22_GeneratedIdFormat ==
    DefaultGenerated =>
        /\ Len(last.ret) = 8
        /\ \A i \in 1..Len(last.ret) : last.ret[i] \in HexChars
        /\ trace[last.ctx] = last.ret

\* A task context that inherited no id has read one (generated by the
\* read), after the main context generated one by reset_trace_id.
C22_Witness ==
    /\ last.op = "get" /\ Falsy(last.pre) /\ last.ctx # MainCtx
    /\ wkind[MainCtx] = "reset"
    /\ Len(trace[MainCtx]) = 8

(***************************************************************************)
(* Properties of handles and log records (checked under SpecLog).          *)
(***************************************************************************)
\* C11: a handle carries the id get_trace_id returned in the calling context
\* during the get_logger call (the context's current id right after it); a
\* record logged through a handle carries the id the handle holds, whatever
\* id the logging context holds at the time of the log call, so after a set
\* or reset the old handle still reports the old id and a handle requested
\* afterwards reports the new one.
C11_HandleCarriesSnapshot ==
    /\ (lastLog.op = "get_logger" /\ last.op = "get_logger") =>
          /\ handles[lastLog.slot].trace_id = last.ret
          /\ handles[lastLog.slot].trace_id = trace[lastLog.ctx]
          /\ (wkind[lastLog.ctx] # "none" /\ ~Falsy(wval[lastLog.ctx])) =>
                handles[lastLog.slot].trace_id = wval[lastLog.ctx]
    /\ lastLog.op = "log" =>
          lastLog.rec.trace_id = handles[lastLog.slot].trace_id

\* Reached: a context that replaced its id after requesting the handle in h1
\* logs through h1, while h2 holds a handle it requested after the change:
\* the record carries the old id, h2 carries the new one.
C11_Witness ==
    /\ lastLog.op = "log" /\ lastLog.slot = "h1"
    /\ wkind[lastLog.ctx] \in {"set", "reset"}
    /\ lastLog.cur = wval[lastLog.ctx]
    /\ lastLog.rec.trace_id # lastLog.cur
    /\ handles["h2"] # NoHandle
    /\ handles["h2"].trace_id = lastLog.cur
    /\ Len(out) > 0 /\ out[Len(out)].rec = lastLog.rec

(***************************************************************************)
(* Properties of the sinks (checked under SpecSinks).                      *)
(***************************************************************************)
\* The severity order DEBUG < INFO < WARNING < ERROR < CRITICAL.
SeverityRank(l) ==
    CASE l = "DEBUG" -> 1
      [] l = "INFO" -> 2
      [] l = "WARNING" -> 3
      [] l = "ERROR" -> 4
      [] l = "CRITICAL" -> 5

Severities == {"DEBUG", "INFO", "WARNING", "ERROR", "CRITICAL"}

\* The sink at position i emitted the record of the last log call.
Delivered(i) ==
    \E k \in lastLog.first..Len(out) :
        out[k].idx = i /\ out[k].rec = lastLog.rec /\ out[k].sink = lastLog.sinks[i]

\* C12: each adapter filters on its own minimum level. A sink whose write
\* does not fail emits the record of a log call if and only if the record's
\* severity is at or above the level of the adapter it was registered from,
\* whatever the levels of the other sinks; and for every adapter variant and
\* every pair of levels should_log answers as the registered sink's filter
\* does, namely whether the level is at or above the minimum (a fact about
\* the two functions, evaluated in the states before the first log call).
C12_PerAdapterFiltering ==
    /\ lastLog.op = "log" =>
          \A i \in 1..Len(lastLog.sinks) :
              i \notin lastLog.failing =>
                  (Delivered(i) <=>
                      SeverityRank(lastLog.rec.level.name)
                          >= SeverityRank(lastLog.sinks[i].level))
    /\ (lastLog.op = "log" /\ configured /\ lastLog.sinks = sinks) =>
          \A i \in 1..Len(adapters) :
              i \notin lastLog.failing =>
                  (Delivered(i) <=>
                      should_log(adapters[i], lastLog.rec.level.name))
    /\ nlog = 0 =>
          \A m \in Severities, l \in Severities :
              \A a \in {ConsoleAdapter(m), JSONAdapter(m), GCPAdapter(m)} :
                  /\ should_log(a, l)
                        = SinkAdmits(get_sink_config(a), [level |-> Level(l)])
                  /\ should_log(a, l) = (SeverityRank(l) >= SeverityRank(m))

\* Reached: with a WARNING Console adapter and a DEBUG JSON adapter, a DEBUG
\* record was emitted by the JSON sink only.
C12_Witness ==
    /\ lastLog.op = "log"
    /\ lastLog.rec.level.name = "DEBUG"
    /\ lastLog.failing = {}
    /\ adapters = <<ConsoleAdapter("WARNING"), JSONAdapter("DEBUG")>>
    /\ lastLog.sinks = sinks
    /\ ~Delivered(1) /\ Delivered(2)

\* C13: a failing sink write is local to its sink. The log call does not
\* raise, and every sink that admits the record and whose own write does not
\* fail emits it, also the sinks added after the failing one.
C13_SinkFailureIsLocal ==
    lastLog.op = "log" =>
        /\ ~lastLog.raised
        /\ \A i \in 1..Len(lastLog.sinks) :
              (i \notin lastLog.failing /\ SinkAdmits(lastLog.sinks[i], lastLog.rec))
                  => Delivered(i)

\* Reached: the write of the first of two sinks failed on a record both
\* admit, and the second sink emitted the record.
C13_Witness ==
    /\ lastLog.op = "log"
    /\ Len(lastLog.sinks) = 2
    /\ lastLog.failing = {1}
    /\ SinkAdmits(lastLog.sinks[1], lastLog.rec)
    /\ ~Delivered(1) /\ Delivered(2)
    /\ ~lastLog.raised

\* C23: for every adapter variant and each of the five levels,
\* get_sink_config() reports the level the adapter was constructed with,
\* and the configuration of the cloud-schema adapter has a "format" entry
\* whose value is a callable formatter. Stated of the adapters of the
\* active list, whose configurations configure has read.
CallableFormatters == {"GCPAdapter._gcp_formatter"}
C23_SinkConfigLevelAndFormat ==
    \A i \in 1..Len(adapters) :
        LET config == get_sink_config(adapters[i]) IN
            /\ config.level = adapters[i].level
            /\ adapters[i].kind = "GCP" =>
                  /\ "format" \in DOMAIN config
                  /\ config.format \in CallableFormatters

(***************************************************************************)
(* Order and trace id of emitted records (checked under SpecLog)           *)
(***************************************************************************)

\* C14 as stated: per sink the records of one context appear in the order
\* they were issued, each record is emitted during its log call, and each
\* record carries the trace id of the context that issued it.
C14_OrderedWithIssuerId ==
    /\ \A i, j \in 1..Len(out) :
          (i < j /\ out[i].idx = out[j].idx /\ out[i].rec.ctx = out[j].rec.ctx)
              => out[i].rec.seq < out[j].rec.seq
    /\ lastLog.op = "log" =>
          /\ \A i \in 1..Len(lastLog.sinks) :
                SinkAdmits(lastLog.sinks[i], lastLog.rec) => Delivered(i)
          /\ lastLog.rec.trace_id = lastLog.cur

\* C14 amended: the same order and immediacy, and each record carries the
\* trace id held by the handle it was logged through (the id captured when
\* the handle was requested), which need not be the id the issuing context
\* holds at the log call.
C14_OrderedWithHandleId ==
    /\ \A i, j \in 1..Len(out) :
          (i < j /\ out[i].idx = out[j].idx /\ out[i].rec.ctx = out[j].rec.ctx)
              => out[i].rec.seq < out[j].rec.seq
    /\ \A i, j \in 1..Len(out) :
          (i < j /\ out[i].idx = out[j].idx) => out[i].rec.seq < out[j].rec.seq
    /\ lastLog.op = "log" =>
          /\ \A i \in 1..Len(lastLog.sinks) :
                SinkAdmits(lastLog.sinks[i], lastLog.rec) => Delivered(i)
          /\ lastLog.rec.trace_id = handles[lastLog.slot].trace_id
          /\ lastLog.rec.ctx = lastLog.ctx

\* Reached: a sink has emitted a record of one context, then one of another
\* context with a different trace id, then a second one of the first.
C14_Witness ==
    /\ Len(out) = 3
    /\ lastLog.op = "log"
    /\ out[1].idx = out[2].idx /\ out[2].idx = out[3].idx
    /\ out[1].rec.ctx = out[3].rec.ctx
    /\ out[2].rec.ctx # out[1].rec.ctx
    /\ out[2].rec.trace_id # out[1].rec.trace_id
    /\ out[1].rec.seq < out[2].rec.seq /\ out[2].rec.seq < out[3].rec.seq

(***************************************************************************)
(* Properties of the standard-logging bridge (checked under SpecBridge).   *)
(***************************************************************************)
\* The sinks a first-party record reaches when the core is in the given
\* state: get_logger calls configure() before the handle exists.
FirstPartySinks(was, ss) ==
    ConfigureCore([configured |-> was, adapters |-> << >>, sinks |-> ss],
                  FALSE, << >>).sinks

\* The sinks that emitted the record of the last log call, in order.
DeliveredSinks ==
    [k \in 1..(Len(out) + 1 - lastLog.first) |->
        out[lastLog.first + k - 1].sink]

\* The members of the sequence ss that admit the record rec.
RECURSIVE Admitting(_, _)
Admitting(ss, rec) ==
    IF ss = << >> THEN << >>
    ELSE (IF SinkAdmits(Head(ss), rec) THEN <<Head(ss)>> ELSE << >>)
         \o Admitting(Tail(ss), rec)

C17_BridgeLevelFallback ==
    lastLog.op = "bridge" =>
        LET f == lastLog.foreign
            no == IF f.levelname \in LoguruLevels THEN LoguruNo(f.levelname)
                  ELSE f.levelno
        IN  /\ ~lastLog.raised
            /\ lastLog.rec.level.no = no
            /\ f.levelname \in LoguruLevels
                  => lastLog.rec.level.name = f.levelname
            /\ f.levelname \notin LoguruLevels
                  => lastLog.rec.level.name \notin LoguruLevels
            /\ \A i \in 1..Len(lastLog.sinks) :
                  Delivered(i) <=> LoguruNo(lastLog.sinks[i].level) <= no

\* Reached: a record named VERBOSE (15) was emitted by the sink at DEBUG, and
\* a record named "Level 35" by a sink at WARNING.
C17_Witness ==
    /\ lastLog.op = "bridge"
    /\ lastLog.foreign.levelname \in {"VERBOSE", "Level 35"}
    /\ lastLog.rec.level.no = lastLog.foreign.levelno
    /\ \E i \in 1..Len(lastLog.sinks) :
          /\ Delivered(i)
          /\ lastLog.sinks[i].level \in {"DEBUG", "WARNING"}

(***************************************************************************)
(* Properties of the interception setup (checked under SpecCore).          *)
(***************************************************************************)
\* C16: after a configure_logging call with interception enabled that
\* returned, every logger name of its list has exactly one handler, the
\* bridge, whatever it had before, and does not propagate; a
\* configure_logging call with interception disabled changes no logger's
\* handlers or propagation.
C16_BridgeReplacesHandlers ==
    /\ [](lastStd.op = "configure_logging" /\ lastStd.intercept
            /\ ~lastStd.raised
          => \A n \in lastStd.ns :
                /\ stdHandlers[n] = <<"InterceptHandler">>
                /\ ~stdPropagate[n])
    /\ [][(lastStd'.op = "configure_logging" /\ ~lastStd'.intercept)
            => UNCHANGED <<stdHandlers, stdPropagate>>]_vars

\* Reached: interception was set up for a list in which a logger already had
\* a handler of its own, which is gone.
C16_Witness ==
    /\ lastStd.op = "configure_logging"
    /\ lastStd.intercept /\ ~lastStd.raised
    /\ lastStd.had
    /\ stdHandlers["uvicorn"] = <<"InterceptHandler">>
    /\ ~stdPropagate["uvicorn"]
    /\ stdPropagate["custom_logger"]

(***************************************************************************)
(* Properties of the cloud-schema output (checked under SpecGcp).          *)
(***************************************************************************)
\* The trace id of the record given to the formatter ("" when none).
RecordTraceId == ExtraTraceId(gcp.rec.extra)

\* A project id is configured.
ProjectConfigured == gcp.project_id \notin {NoProject, EmptyStr}

\* C18 as stated: the output has the key logging.googleapis.com/trace if
\* and only if the record's trace id is 32 lowercase hex characters and a
\* project id is configured; its value is then
\* projects/{project_id}/traces/{trace_id}, and never the 8-character id
\* 05556afc.
C18_TraceFieldIffValid ==
    gcp.done =>
        /\ Has(gcp.out, "trace")
              <=> /\ ProjectConfigured
                  /\ Len(RecordTraceId) = 32
                  /\ \A i \in 1..Len(RecordTraceId) :
                        RecordTraceId[i] \in HexChars
        /\ Has(gcp.out, "trace")
              => /\ gcp.out.trace = TracePath(gcp.project_id, RecordTraceId)
                 /\ gcp.out.trace # UuidHex8(Hex32)

\* C19 as stated: every output object has the key trace_id, holding the
\* record's trace id, whether or not the recognised trace field is set.
C19_TraceIdKeyAlways ==
    gcp.done =>
        /\ Has(gcp.out, "trace_id")
        /\ gcp.out.trace_id = RecordTraceId

\* The keys an extra can have besides trace_id and name.
OtherExtraKeys ==
    {"order_id", "trace", "severity", "message", "timestamp",
     "sourceLocation"}

\* C30 as stated: in every output object the keys severity, message,
\* timestamp and logging.googleapis.com/sourceLocation hold the values
\* derived from the record itself, whatever the extras are, also when an
\* extra has one of those names; and every extra other than trace_id and
\* name appears as a top-level key.
C30_RecordKeysFromRecord ==
    gcp.done =>
        /\ gcp.out.severity = <<level_map(gcp.rec.level.name)>>
        /\ gcp.out.message = gcp.rec.message
        /\ gcp.out.timestamp = gcp.rec.time
        /\ gcp.out.sourceLocation = gcp.rec.location
        /\ \A k \in OtherExtraKeys :
              Has(gcp.rec.extra, k) => Has(gcp.out, k)

(***************************************************************************)
(* Properties of get_adapters (checked under SpecHeld).                    *)
(***************************************************************************)
\* C20: get_adapters returns a copy. A mutation of a returned list (append,
\* remove, clear) changes neither what get_adapters returns afterwards nor
\* the installed sinks, which decide the adapters that receive records; and
\* every get_adapters call returns the core's adapter list, whatever was done
\* to lists returned before.
C20_GetAdaptersDefensiveCopy ==
    /\ [][(held'.op = "mutate" /\ held' # held)
            => /\ get_adapters' = get_adapters
               /\ sinks' = sinks
               /\ is_configured' = is_configured]_vars
    /\ [][(held'.op = "get" /\ held' # held)
            => held'.list = get_adapters /\ get_adapters' = get_adapters]_vars

\* Reached: while configured with two adapters, the caller emptied the list
\* it was given and then appended to it; the core still has its two
\* adapters and their sinks.
C20_Witness ==
    /\ held.op = "mutate"
    /\ held.list = <<JSONAdapter("ERROR")>>
    /\ configured
    /\ Len(adapters) = 2 /\ Len(sinks) = 2
    /\ get_adapters # held.list

(***************************************************************************)
(* Properties of the configuration from the environment (checked under     *)
(* SpecEnv).                                                               *)
(***************************************************************************)
\* The LOG_ENV values that are the marker "google" once trimmed and
\* lowercased.
MarkerSpellings ==
    {<<"g", "o", "o", "g", "l", "e">>,
     <<" ", "G", "o", "o", "g", "l", "e", " ">>,
     <<"G", "O", "O", "G", "L", "E", "\n">>}

\* The first of GOOGLE_CLOUD_PROJECT, GCP_PROJECT_ID that is set and
\* non-empty, if there is one.
SetNonEmpty(v) == v # Absent /\ v # EmptyStr
FirstProject(env) ==
    IF SetNonEmpty(env.GOOGLE_CLOUD_PROJECT) THEN env.GOOGLE_CLOUD_PROJECT
    ELSE env.GCP_PROJECT_ID

\* C21: configure_logging_from_env hands configure_logging a list of exactly
\* one adapter: the cloud-schema adapter when LOG_ENV, trimmed and
\* lowercased, is "google", the Console adapter for every other value and
\* when LOG_ENV is not set; the adapter's level is the value of LOG_LEVEL,
\* INFO when it is not set; and the cloud adapter's project id is the value
\* of the first of GOOGLE_CLOUD_PROJECT, GCP_PROJECT_ID that is set and
\* non-empty.
C21_AdapterFromEnv ==
    lastCfg.op = "configure_logging_from_env" =>
        /\ lastCfg.given /\ Len(lastCfg.ads) = 1
        /\ lastCfg.ads[1].kind =
              IF environ.LOG_ENV \in MarkerSpellings THEN "GCP" ELSE "Console"
        /\ lastCfg.ads[1].level =
              IF environ.LOG_LEVEL = Absent THEN "INFO"
              ELSE environ.LOG_LEVEL[1]
        /\ (/\ lastCfg.ads[1].kind = "GCP"
            /\ \/ SetNonEmpty(environ.GOOGLE_CLOUD_PROJECT)
               \/ SetNonEmpty(environ.GCP_PROJECT_ID))
              => lastCfg.ads[1].project_id = FirstProject(environ)

\* A process whose LOG_ENV is " Google ", whose LOG_LEVEL is WARNING and
\* whose only non-empty project variable is GCP_PROJECT_ID has been
\* configured from its environment, and the cloud adapter is active.
C21_Witness ==
    /\ lastCfg.op = "configure_logging_from_env"
    /\ ~lastCfg.was /\ ~lastCfg.raised
    /\ environ.LOG_ENV = <<" ", "G", "o", "o", "g", "l", "e", " ">>
    /\ environ.LOG_LEVEL = <<"WARNING">>
    /\ environ.GOOGLE_CLOUD_PROJECT = EmptyStr
    /\ environ.GCP_PROJECT_ID = OtherProject
    /\ adapters = <<GCPAdapterOf("WARNING", OtherProject)>>

(***************************************************************************)
(* Properties of the onboarding tools (checked under SpecTool).            *)
(***************************************************************************)
\* get_api_key fails: the request has no headers, or no Authorization
\* header (none, or one with an empty value).
NoCredentials(h) ==
    \/ ~h.others /\ h.authorization = Absent
    \/ h.authorization \in {Absent, EmptyStr}

\* The token of the inbound Authorization header: what follows "Bearer ",
\* or the whole value when the scheme is not given.
InboundToken(h) ==
    IF Len(h.authorization) >= Len(Bearer)
          /\ SubSeq(h.authorization, 1, Len(Bearer)) = Bearer
    THEN SubSeq(h.authorization, Len(Bearer) + 1, Len(h.authorization))
    ELSE h.authorization

\* The invocation issued exactly one request, with the bearer token of the
\* inbound header, and raised if the response had an error status.
ExactlyOneRequest ==
    /\ Len(tool.requests) = 1
    /\ tool.requests[1].Authorization = Bearer \o InboundToken(tool.headers)
    /\ tool.response[2] \in {404, 500} =>
          /\ tool.outcome = "HTTPStatusError"
          /\ tool.result = "none"

\* C24 as stated: a tool invocation issues at most one request; none when
\* get_api_key fails; otherwise exactly one, with Authorization: Bearer
\* <token of the inbound header>, and an error status makes the tool raise.
C24_OneRequestEveryTool ==
    tool.done =>
        /\ Len(tool.requests) <= 1
        /\ NoCredentials(tool.headers) =>
              tool.requests = << >> /\ tool.outcome = "ValueError"
        /\ ~NoCredentials(tool.headers) => ExactlyOneRequest

\* C24 (amended): a tool invocation issues at most one request; none when
\* get_api_key fails; otherwise a tool that calls the remote API issues
\* exactly one, with Authorization: Bearer <token of the inbound header>,
\* and an error status makes it raise, while the debug tool log_request
\* issues none and returns.
C24_OneRequestPerApiTool ==
    tool.done =>
        /\ Len(tool.requests) <= 1
        /\ NoCredentials(tool.headers) =>
              tool.requests = << >> /\ tool.outcome = "ValueError"
        /\ (~NoCredentials(tool.headers) /\ tool.name # "log_request") =>
              ExactlyOneRequest
        /\ (~NoCredentials(tool.headers) /\ tool.name = "log_request") =>
              tool.requests = << >> /\ tool.outcome = "returned"

\* update_user was invoked with "Bearer tk", issued its one PUT request and
\* raised on the 500 response, after an earlier invocation had returned.
C24_Witness ==
    /\ tool.done /\ tool.name = "update_user"
    /\ tool.headers.authorization = Bearer \o Token
    /\ tool.requests = <<[method |-> "PUT",
                          Authorization |-> Bearer \o Token]>>
    /\ tool.response = <<"ok", 500, "text">>
    /\ tool.outcome = "HTTPStatusError"
    /\ nlog = 1

(***************************************************************************)
(* Properties of Logger Core (checked under SpecCore).                     *)
(***************************************************************************)
ConfigureCalls == {"configure", "configure_logging", "get_logger"}

\* The sinks registered from an adapter list, one per adapter in list order.
SinksOf(ads) == [i \in 1..Len(ads) |-> get_sink_config(ads[i])]

\* C8: configure is idempotent while configured. A step taken while
\* is_configured() is true by any entry point that calls configure
\* (configure itself, configure_logging, get_logger), with any adapters
\* argument, leaves the adapter list and the installed sinks as they were,
\* stays configured and does not raise.
C8_ConfigureIdempotent ==
    [][(is_configured /\ lastCfg'.op \in ConfigureCalls)
          => /\ get_adapters' = get_adapters
             /\ sinks' = sinks
             /\ is_configured'
             /\ ~lastCfg'.raised]_vars

\* Reached: configure(B) was called with a list B other than the active one
\* while the core was configured by the implicit default of get_logger, and
\* the default is still active.
C8_Witness ==
    /\ lastCfg.op = "configure"
    /\ lastCfg.was /\ lastCfg.given
    /\ lastCfg.ads # adapters
    /\ cfgBy = "get_logger"
    /\ is_configured
    /\ Len(sinks) = 1

C10_GetLoggerAutoConfigures ==
    lastCfg.op = "get_logger" =>
        /\ is_configured
        /\ (~lastCfg.was =>
              /\ Len(get_adapters) = 1
              /\ get_adapters[1].kind = "Console"
              /\ get_adapters[1].level = "DEBUG")

\* Reached: get_logger found the core unconfigured right after a
\* reset_logging and configured the default.
C10_Witness ==
    /\ lastCfg.op = "get_logger"
    /\ ~lastCfg.was
    /\ lastCfg.afterReset
    /\ is_configured
    /\ cfgBy = "get_logger"

\* C26: whenever Logger Core is configured, the installed sinks are exactly
\* the sinks registered from the active adapter list, one per adapter and in
\* list order; a configure that takes effect leaves none of the sinks
\* installed before it (the backend's default sink, the sinks of a
\* configuration that preceded a reset, the sinks of a call that failed).
C26_OneSinkGeneration ==
    /\ is_configured =>
          /\ Len(sinks) = Len(get_adapters)
          /\ \A i \in 1..Len(sinks) :
                sinks[i] = get_sink_config(get_adapters[i])
    /\ [][(~is_configured /\ is_configured') =>
             \A i \in 1..Len(sinks') :
                sinks'[i] = get_sink_config(get_adapters'[i])]_vars

\* A configure took effect after a reset that followed a two-adapter
\* configuration, and installed its single sink.
C26_Witness ==
    /\ lastCfg.op = "configure"
    /\ lastCfg.afterReset /\ ~lastCfg.was /\ ~lastCfg.raised
    /\ is_configured
    /\ get_adapters = <<GCPAdapter("WARNING")>>
    /\ sinks = <<get_sink_config(GCPAdapter("WARNING"))>>

(***************************************************************************)
(* Properties of a failing configuration (checked under SpecEnv).          *)
(***************************************************************************)
\* C27: in every reachable state in which is_configured() is false,
\* get_adapters() is empty and no sink of an adapter is installed (only the
\* backend's default sink can be); a configure call that raises leaves the
\* configured flag, the adapter list and the installed sinks as they were.
C27_UnconfiguredHasNoAdapters ==
    /\ [](~is_configured =>
            /\ get_adapters = << >>
            /\ \A i \in 1..Len(sinks) : sinks[i] = LoguruDefaultSink)
    /\ [][lastCfg'.raised => UNCHANGED <<configured, adapters, sinks>>]_vars

(***************************************************************************)
(* Repeated configure_logging calls and reset_logging (checked under       *)
(* SpecCore).                                                              *)
(***************************************************************************)
\* The foreign logger names on which the bridge is installed.
Intercepted ==
    {n \in LoggerNames :
        stdHandlers[n] = <<"InterceptHandler">> /\ ~stdPropagate[n]}

\* C28: a configure_logging call made while Logger Core is configured
\* leaves the adapter list and the installed sinks unchanged; with
\* interception enabled it still installs the bridge on every name of its
\* list (one bridge handler, propagation disabled) and changes no other
\* name, so the set of intercepted names only grows.
C28_ConfiguredCallStillIntercepts ==
    [][(/\ is_configured
        /\ lastCfg'.op = "configure_logging"
        /\ lastStd'.op = "configure_logging")
       => /\ is_configured'
          /\ get_adapters' = get_adapters
          /\ sinks' = sinks
          /\ lastStd'.intercept =>
                /\ Intercepted' = Intercepted \cup lastStd'.ns
                /\ \A n \in LoggerNames \ lastStd'.ns :
                      /\ stdHandlers'[n] = stdHandlers[n]
                      /\ stdPropagate'[n] = stdPropagate[n]]_vars

\* A second configure_logging call, made while configured and with another
\* adapter list, added custom_logger to the intercepted names of the first.
C28_Witness ==
    /\ lastCfg.op = "configure_logging"
    /\ lastCfg.was /\ lastCfg.given /\ lastCfg.ads # get_adapters
    /\ lastStd.op = "configure_logging" /\ lastStd.intercept
    /\ lastStd.ns = CustomLoggers /\ ~lastStd.had
    /\ Intercepted = FastapiLoggers \cup CustomLoggers

(***************************************************************************)
(* The frame of reset_logging (checked under SpecBridge).                  *)
(***************************************************************************)
\* The step is a reset_logging call.
ResetStep ==
    /\ lastCfg'.op = "reset_logging" /\ lastStd'.op = "reset_logging"
    /\ <<lastCfg, lastStd>>' # <<lastCfg, lastStd>>

\* C29: reset_logging changes only the configured flag, the adapter list,
\* the installed sinks and the root logger of the foreign logging: the trace
\* id of every context, and the handlers and the propagation of every other
\* foreign logger (the bridge installed on intercepted names), stay as they
\* were, as do the handles and the records already emitted.
C29_ResetFrame ==
    [][ResetStep =>
          /\ trace' = trace
          /\ ctxState' = ctxState
          /\ \A n \in LoggerNames \ {"root"} :
                /\ stdHandlers'[n] = stdHandlers[n]
                /\ stdPropagate'[n] = stdPropagate[n]
          /\ Intercepted' = Intercepted
          /\ handles' = handles /\ out' = out]_vars

\* reset_logging was called on a configured core while a task held the id
\* of its request and the bridge was installed on the framework's loggers.
C29_Witness ==
    /\ lastCfg.op = "reset_logging" /\ lastCfg.was
    /\ ~is_configured /\ sinks = << >>
    /\ stdHandlers["root"] = <<"StreamHandler">>
    /\ Intercepted = FastapiLoggers
    /\ \E c \in Ctx \ {MainCtx} : trace[c] = ReqId

(***************************************************************************)
(* Properties of parallel configure calls (checked under SpecThreads).     *)
(***************************************************************************)
\* Both threads have called configure, with different lists, and returned.
BothReturned ==
    /\ \A t \in Threads : thr[t].pc = "returned"
    /\ thr["T1"].arg # thr["T2"].arg

\* C25: when two threads call configure in parallel from the unconfigured
\* state with the lists A and B, then in every interleaving the final state
\* has exactly one of A, B as the active adapter list and exactly that
\* list's sinks installed.
C25_ParallelConfigureOnce ==
    BothReturned =>
        /\ is_configured
        /\ \E t \in Threads : get_adapters = thr[t].arg
        /\ sinks = SinksOf(get_adapters)

====
